---- MODULE Spec2Model ----
(***************************************************************************)
(* A model of YahooFinanceDataWarehouse (src/stockdata.py): the per-symbol *)
(* CSV files on disk, the incremental update with its concat / dedup /     *)
(* to_csv round trip, the two pass-through readers and the batch runner.   *)
(*                                                                         *)
(* A DataFrame is a sequence of rows [idx, close]; the other columns       *)
(* travel with close and are left out.  An index label is a record         *)
(* [k, d]: k = "ts" is a pandas Timestamp of day d (what yf.download       *)
(* returns), k = "date" is the string 'YYYY-MM-DD' and k = "datetime" the  *)
(* string 'YYYY-MM-DD 00:00:00' (what a CSV file holds).  Two labels are   *)
(* the same index key only when both k and d agree: a string never equals  *)
(* a Timestamp, and the two string forms differ as strings.                *)
(***************************************************************************)
EXTENDS Integers, Sequences, FiniteSets, TLC

MaxDate == 2
MaxFetch == 2
MaxRows == 3
MaxBatch == 2

Symbols == {"0700", "AAPL"}
Markets == {"HK", "US"}
Closes == {1, 2}
Periods == {"1d"}
Dates == 1..MaxDate
ClockDates == 1..(MaxDate + 1)

VARIABLES files, dirs, today, console, last, batch

vars == <<files, dirs, today, console, last, batch>>

---------------------------------------------------------------------------
(* Index labels and their conversions *)

Timestamp(d) == [k |-> "ts", d |-> d]

\* pd.to_datetime(label): both string forms and a Timestamp parse to the day.
to_datetime(label) == label.d

\* DataFrame.to_csv writes a DatetimeIndex whose times are all midnight as
\* 'YYYY-MM-DD'; an object index is written label by label with str(): a
\* string as itself, a Timestamp as 'YYYY-MM-DD 00:00:00'.
IsDatetimeIndex(df) == \A i \in 1..Len(df) : df[i].idx.k = "ts"

to_csv(df) ==
    IF IsDatetimeIndex(df)
    THEN [i \in 1..Len(df) |-> [idx |-> [k |-> "date", d |-> df[i].idx.d],
                                close |-> df[i].close]]
    ELSE [i \in 1..Len(df) |->
            [idx |-> IF df[i].idx.k = "ts"
                     THEN [k |-> "datetime", d |-> df[i].idx.d]
                     ELSE df[i].idx,
             close |-> df[i].close]]

\* pd.read_csv(file_path, index_col=0): no parse_dates, the index stays strings.
read_csv(rows) == rows

\* df.rename(columns={'Close': 'close', ...})
rename(df) == [i \in 1..Len(df) |-> [idx |-> df[i].idx, close |-> df[i].Close]]

concat(a, b) == a \o b

\* Variant: duplicated(keep='first'), TRUE where an earlier row has the key.
duplicated_keep_first(df) ==
    [i \in 1..Len(df) |-> \E j \in 1..(i - 1) : df[j].idx = df[i].idx]

\* updated_df.index.duplicated(keep='last'): TRUE where a later row has the
\* same index key.
duplicated(df) ==
    [i \in 1..Len(df) |-> \E j \in (i + 1)..Len(df) : df[j].idx = df[i].idx]

RECURSIVE Select(_, _, _)
Select(df, mask, i) ==
    IF i > Len(df) THEN <<>>
    ELSE (IF mask[i] THEN <<df[i]>> ELSE <<>>) \o Select(df, mask, i + 1)

\* updated_df[~updated_df.index.duplicated(keep='last')]
drop_duplicated(df) ==
    LET dup == duplicated(df)
    IN  Select(df, [i \in 1..Len(df) |-> ~dup[i]], 1)

---------------------------------------------------------------------------
(* Paths, tickers, messages *)

_get_symbol_path(symbol, market) == "stock_data/" \o market \o "/" \o symbol \o ".csv"

\* Variant: the market suffix on every ticker.
full_symbol_always_suffixed(symbol, market) == symbol \o "." \o market

full_symbol(symbol, market) ==
    IF market = "HK" THEN symbol \o "." \o market ELSE symbol

NoStart == [given |-> FALSE, date |-> 0]

\* Variant: the full history is requested on every call.
start_date_full_history(existed, existing_df) == NoStart

\* Variant: the start bound is the last stored day itself.
start_date_same_day(existed, existing_df) ==
    IF existed
    THEN [given |-> TRUE,
          date |-> to_datetime(existing_df[Len(existing_df)].idx)]
    ELSE NoStart

start_date(existed, existing_df) ==
    IF existed
    THEN [given |-> TRUE,
          date |-> to_datetime(existing_df[Len(existing_df)].idx) + 1]
    ELSE NoStart

Msg(kind, who, n) == [msg |-> kind, who |-> who, n |-> n]

---------------------------------------------------------------------------
(* What the provider can answer *)

RECURSIVE SeqsUpTo(_, _)
SeqsUpTo(S, n) ==
    IF n = 0 THEN {<<>>}
    ELSE LET shorter == SeqsUpTo(S, n - 1)
         IN  shorter \cup {Append(s, x) : s \in {t \in shorter : Len(t) = n - 1}, x \in S}

ProviderRows == {[idx |-> Timestamp(d), Close |-> c] : d \in Dates, c \in Closes}

Raised == [raised |-> TRUE, df |-> <<>>]

\* yf.download either raises or returns a frame; nothing is assumed of the rows.
ProviderOutcomes ==
    {Raised} \cup {[raised |-> FALSE, df |-> s] : s \in SeqsUpTo(ProviderRows, MaxFetch)}

\* A provider that honours the requested range: dates ascending, none
\* repeated, all in [start, end).
InRange(df, start, end) ==
    /\ \A i \in 1..Len(df) :
          /\ df[i].idx.d < end
          /\ start.given => df[i].idx.d >= start.date
    /\ \A i \in 1..(Len(df) - 1) : df[i].idx.d < df[i + 1].idx.d

RangeOutcomes(start, end) ==
    {o \in ProviderOutcomes : o.raised \/ InRange(o.df, start, end)}

\* An error, an empty frame, or a frame of one row.
OneRowOutcomes == {o \in ProviderOutcomes : Len(o.df) <= 1}

\* The same, the one row being the first day's bar.
BriefOutcomes ==
    {o \in OneRowOutcomes :
        \A i \in 1..Len(o.df) : o.df[i].Close = 1 /\ o.df[i].idx.d = 1}

IntradayOutcomes ==
    {Raised} \cup {[raised |-> FALSE, df |-> s] : s \in SeqsUpTo({"bar"}, 1)}

---------------------------------------------------------------------------
(* The operations *)

NoCall(op) ==
    [op |-> op, symbol |-> "", market |-> "", ticker |-> "", start |-> NoStart,
     end |-> 0, out |-> [raised |-> FALSE, df |-> <<>>], existed |-> FALSE,
     pre |-> <<>>, failed |-> FALSE]

Idle == [pairs |-> <<>>, i |-> 0, aborted |-> FALSE]

BatchRunning == batch.i < Len(batch.pairs) /\ ~batch.aborted

RECURSIVE TotalRows(_, _)
TotalRows(fs, paths) ==
    IF paths = {} THEN 0
    ELSE LET p == CHOOSE q \in paths : TRUE
         IN  Len(fs[p]) + TotalRows(fs, paths \ {p})

\* Variant: no try/except around the download, the error propagates.
download_without_except(symbol, out) ==
    [raised |-> out.raised, none |-> FALSE,
     df |-> IF out.raised THEN <<>> ELSE rename(out.df), printed |-> <<>>]

\* try: yf.download(...); rename  except Exception: print; return None
_download_historical_data(symbol, out) ==
    IF out.raised
    THEN [raised |-> FALSE, none |-> TRUE, df |-> <<>>,
          printed |-> <<Msg("Error downloading", symbol, 0)>>]
    ELSE [raised |-> FALSE, none |-> FALSE, df |-> rename(out.df),
          printed |-> <<>>]

\* Variant: only "new_data is not None" is tested.
has_new_data_ignoring_empty(new_data) == ~new_data.none

\* new_data is not None and not new_data.empty
has_new_data(new_data) == ~new_data.none /\ new_data.df # <<>>

\* Variant: the stored rows are left out of the frame written back.
merged_new_only(existed, existing_df, new_df) == new_df

\* pd.concat([existing_df, new_data]) when the file exists, else new_data
merged(existed, existing_df, new_df) ==
    IF existed THEN concat(existing_df, new_df) ELSE new_df

\* One run of update_historical_data(symbol, market) against provider
\* outcome `out`; `shown` is the console before the call's own prints.
update_historical_data(symbol, market, out, shown) ==
    LET file_path   == _get_symbol_path(symbol, market)
        ticker      == full_symbol(symbol, market)
        existed     == file_path \in DOMAIN files
        existing_df == IF existed THEN read_csv(files[file_path]) ELSE <<>>
        start       == start_date(existed, existing_df)
        new_data    == _download_historical_data(ticker, out)
        updated_df  == drop_duplicated(merged(existed, existing_df, new_data.df))
        written     == ~new_data.raised /\ has_new_data(new_data)
    IN  /\ TotalRows(files, DOMAIN files) + Len(out.df) <= MaxRows
        /\ dirs' = dirs \cup {market}
        /\ files' = IF written
                    THEN (file_path :> to_csv(updated_df)) @@ files
                    ELSE files
        /\ console' = shown \o new_data.printed \o
                      (IF new_data.raised THEN <<>>
                       ELSE IF written
                            THEN <<Msg("Updated", symbol, Len(new_data.df))>>
                            ELSE <<Msg("No new data", symbol, 0)>>)
        /\ last' = [op |-> "update_historical_data", symbol |-> symbol,
                    market |-> market, ticker |-> ticker, start |-> start,
                    end |-> today, out |-> out, existed |-> existed,
                    pre |-> existing_df, failed |-> new_data.raised]
        /\ batch' = IF BatchRunning
                    THEN [batch EXCEPT !.i = @ + 1, !.aborted = new_data.raised]
                    ELSE Idle
        /\ UNCHANGED today

\* The start bound the next update of (symbol, market) will request.
NextStart(symbol, market) ==
    LET file_path == _get_symbol_path(symbol, market)
    IN  IF file_path \in DOMAIN files
        THEN start_date(TRUE, read_csv(files[file_path]))
        ELSE NoStart

\* A call of update_historical_data from outside a batch; the provider
\* answers with one of `outcomes`.
UpdateHistoricalData(symbol, market, outcomes) ==
    /\ ~BatchRunning
    /\ \E out \in outcomes :
          update_historical_data(symbol, market, out, <<>>)

\* get_realtime_data: Ticker(full_symbol).history(...); nothing is stored.
GetRealtimeData(symbol, market, period) ==
    /\ ~BatchRunning
    /\ \E out \in IntradayOutcomes :
          /\ last' = [NoCall("get_realtime_data") EXCEPT
                        !.symbol = symbol, !.market = market,
                        !.ticker = full_symbol(symbol, market), !.out = out]
          /\ console' = IF out.raised
                        THEN <<Msg("Error fetching realtime data", "", 0)>>
                        ELSE <<>>
    /\ batch' = Idle
    /\ UNCHANGED <<files, dirs, today>>

\* get_local_data: resolves the path (creating the market directory), reads.
GetLocalData(symbol, market) ==
    /\ ~BatchRunning
    /\ LET file_path == _get_symbol_path(symbol, market)
           existed   == file_path \in DOMAIN files
       IN  /\ last' = [NoCall("get_local_data") EXCEPT
                         !.symbol = symbol, !.market = market,
                         !.existed = existed,
                         !.pre = IF existed THEN files[file_path] ELSE <<>>]
           /\ console' = IF existed THEN <<>>
                         ELSE <<Msg("No local data found", symbol, 0)>>
    /\ dirs' = dirs \cup {market}
    /\ batch' = Idle
    /\ UNCHANGED <<files, today>>

RECURSIVE zip(_, _)
zip(a, b) ==
    IF a = <<>> \/ b = <<>> THEN <<>>
    ELSE <<<<Head(a), Head(b)>>>> \o zip(Tail(a), Tail(b))

\* batch_update: the for loop over zip(symbol_list, markets); BatchUpdate
\* enters it and each BatchIter is one iteration.  Nothing else runs while
\* the loop is running.
BatchUpdate(symbol_list, markets) ==
    /\ ~BatchRunning
    /\ batch' = [pairs |-> zip(symbol_list, markets), i |-> 0, aborted |-> FALSE]
    /\ console' = <<>>
    /\ last' = NoCall("batch_update")
    /\ UNCHANGED <<files, dirs, today>>

BatchIter(outcomes) ==
    /\ BatchRunning
    /\ LET pair == batch.pairs[batch.i + 1]
       IN  \E out \in outcomes :
              update_historical_data(pair[1], pair[2], out, console)

\* datetime.today() is the local wall clock: it moves on, and can be set back.
ClockChange ==
    /\ \E d \in ClockDates \ {today} : today' = d
    /\ last' = NoCall("none")
    /\ UNCHANGED <<files, dirs, console, batch>>

Init ==
    /\ files = <<>>
    /\ dirs = {}
    /\ today = 1
    /\ console = <<>>
    /\ last = NoCall("none")
    /\ batch = Idle

\* The whole interface over every identifier, the provider answering with
\* an error, nothing, or the first day's bar.
Next ==
    \/ \E s \in Symbols, m \in Markets : UpdateHistoricalData(s, m, BriefOutcomes)
    \/ \E s \in Symbols, m \in Markets, p \in Periods : GetRealtimeData(s, m, p)
    \/ \E s \in Symbols, m \in Markets : GetLocalData(s, m)
    \/ \E sl \in SeqsUpTo(Symbols, MaxBatch), ml \in SeqsUpTo(Markets, MaxBatch) :
          BatchUpdate(sl, ml)
    \/ BatchIter(BriefOutcomes)

Spec == Init /\ [][Next]_vars

\* The whole interface used for one identifier, the provider answering with
\* any rows at all: repeated dates, dates out of order, dates already stored
\* (inside a batch: any one row).
NextSeries ==
    \/ UpdateHistoricalData("0700", "HK", ProviderOutcomes)
    \/ \E p \in Periods : GetRealtimeData("0700", "HK", p)
    \/ GetLocalData("0700", "HK")
    \/ \E sl \in SeqsUpTo({"0700"}, MaxBatch), ml \in SeqsUpTo({"HK"}, MaxBatch) :
          BatchUpdate(sl, ml)
    \/ BatchIter(OneRowOutcomes)

SpecSeries == Init /\ [][NextSeries]_vars

\* Repeated updates of one identifier against a provider that honours the
\* requested range, under a wall clock that changes between calls.
NextInRange ==
    \/ UpdateHistoricalData("0700", "HK", RangeOutcomes(NextStart("0700", "HK"), today))
    \/ ClockChange

SpecInRange == Init /\ [][NextInRange]_vars

---------------------------------------------------------------------------
(* Properties *)

\* The calendar days of a stored Series, and its bars as (day, close).
DatesOf(rows) == {to_datetime(rows[i].idx) : i \in 1..Len(rows)}

BarsOf(rows) == {<<to_datetime(rows[i].idx), rows[i].close>> : i \in 1..Len(rows)}

\* The days the provider returned, and the close of its last row for day d.
FetchedDates(df) == {df[i].idx.d : i \in 1..Len(df)}

FetchedClose(df, d) ==
    LET at == {i \in 1..Len(df) : df[i].idx.d = d}
        n  == CHOOSE i \in at : \A j \in at : j <= i
    IN  df[n].Close

OneBarPerDate(rows) ==
    \A i, j \in 1..Len(rows) :
        i # j => to_datetime(rows[i].idx) # to_datetime(rows[j].idx)

Ascending(rows) ==
    \A i \in 1..(Len(rows) - 1) :
        to_datetime(rows[i].idx) <= to_datetime(rows[i + 1].idx)

LatestDate(rows) ==
    CHOOSE d \in DatesOf(rows) : \A e \in DatesOf(rows) : e <= d

Updated == last.op = "update_historical_data"

Fetched == ~last.out.raised /\ last.out.df # <<>>

LastPath == _get_symbol_path(last.symbol, last.market)

\* The status lines of the console: one per update_historical_data call.
StatusLines == SelectSeq(console, LAMBDA m : m.msg \in {"Updated", "No new data"})

\* C1: every persisted Series holds at most one bar for every date.
C1_NoDuplicateDates ==
    \A p \in DOMAIN files : OneBarPerDate(files[p])

\* C2: after an update of a stored Series with a non-empty fetch, the
\* persisted dates are the union of the stored and the fetched dates, and
\* every bar of a date present in both is the newly fetched one.
C2_MergeCorrect ==
    (Updated /\ last.existed /\ Fetched) =>
        LET f == files[LastPath]
        IN  /\ DatesOf(f) = DatesOf(last.pre) \cup FetchedDates(last.out.df)
            /\ \A i \in 1..Len(f) :
                  to_datetime(f[i].idx) \in
                        DatesOf(last.pre) \cap FetchedDates(last.out.df)
                  => f[i].close = FetchedClose(last.out.df, to_datetime(f[i].idx))

\* C3: after an update that writes the file, the persisted Series is sorted
\* ascending by date whenever the stored Series was.
C3_SortedAfterUpdate ==
    (Updated /\ last.existed /\ Fetched /\ Ascending(last.pre)) =>
        Ascending(files[LastPath])

\* C4: an update whose fetch is absent (a caught provider error) or empty
\* leaves the file as it was, creates none, reports "No new data" and does
\* not fail.
C4_EmptyFetchLeavesFile ==
    (Updated /\ ~Fetched) =>
        /\ (LastPath \in DOMAIN files) <=> last.existed
        /\ last.existed => files[LastPath] = last.pre
        /\ console # <<>>
        /\ console[Len(console)] = Msg("No new data", last.symbol, 0)
        /\ ~last.failed

C4_Witness ==
    /\ Updated /\ last.existed /\ last.out.raised
    /\ files[LastPath] = last.pre

\* C5: a batch is never aborted by a provider error: after i iterations the
\* first i pairs, and only they, were processed in input order, the next
\* iteration can run, and the pair just processed has its own fetch in its
\* file.
C5_BatchIsolation ==
    batch.pairs # <<>> =>
        /\ ~batch.aborted
        /\ batch.i <= Len(batch.pairs)
        /\ Len(StatusLines) = batch.i
        /\ \A k \in 1..batch.i : StatusLines[k].who = batch.pairs[k][1]
        /\ batch.i < Len(batch.pairs) => ENABLED BatchIter(BriefOutcomes)
        /\ (batch.i > 0 /\ Updated) =>
              /\ <<last.symbol, last.market>> = batch.pairs[batch.i]
              /\ ~last.failed
              /\ Fetched =>
                    /\ LastPath \in DOMAIN files
                    /\ \A d \in FetchedDates(last.out.df) :
                          <<d, FetchedClose(last.out.df, d)>> \in BarsOf(files[LastPath])
                    /\ StatusLines[batch.i].msg = "Updated"

C5_Witness ==
    /\ Len(batch.pairs) = 2 /\ batch.i = 2
    /\ batch.pairs[1] # batch.pairs[2]
    /\ console[1].msg = "Error downloading"
    /\ Updated /\ Fetched /\ ~last.existed
    /\ LastPath \in DOMAIN files

\* Rows of a provider frame from the start bound on.
FromStart(df, start) ==
    SelectSeq(df, LAMBDA r : start.given => r.idx.d >= start.date)

C7_NeverTruncated ==
    [][\A p \in DOMAIN files :
          /\ p \in DOMAIN files'
          /\ DatesOf(files[p]) \subseteq DatesOf(files'[p])]_vars

C7_Witness ==
    /\ Updated /\ last.existed /\ Fetched
    /\ batch.i = 2
    /\ DatesOf(last.pre) # DatesOf(files[LastPath])
    /\ DatesOf(last.pre) \subseteq DatesOf(files[LastPath])

\* C8: the first update of an identifier asks for the full history (no start
\* bound) and, when the fetch is not empty, creates the file with exactly the
\* fetched bars, one per date, the last row of a repeated date.
C8_FirstRun ==
    (Updated /\ ~last.existed) =>
        /\ ~last.start.given
        /\ Fetched =>
              /\ LastPath \in DOMAIN files
              /\ OneBarPerDate(files[LastPath])
              /\ BarsOf(files[LastPath]) =
                    {<<d, FetchedClose(last.out.df, d)>> :
                        d \in FetchedDates(last.out.df)}

C8_Witness ==
    /\ Updated /\ ~last.existed /\ Fetched
    /\ Len(last.out.df) = 2
    /\ last.out.df[1].idx = last.out.df[2].idx
    /\ last.out.df[1].Close # last.out.df[2].Close
    /\ Len(files[LastPath]) = 1

C10_TickerMapping ==
    last.op \in {"update_historical_data", "get_realtime_data"} =>
        /\ last.ticker = IF last.market = "HK" THEN last.symbol \o ".HK"
                         ELSE last.symbol
        /\ (last.symbol = "0700" /\ last.market = "HK") => last.ticker = "0700.HK"
        /\ (last.symbol = "AAPL" /\ last.market = "US") => last.ticker = "AAPL"

C10_Witness ==
    /\ last.op = "get_realtime_data"
    /\ last.symbol = "0700" /\ last.market = "HK"
    /\ last.ticker = "0700.HK"

====
